---------------------------- MODULE Spec2Model ----------------------------
(***************************************************************************)
(* A model of the Agentic-Workflow-Builder front end: the zustand store    *)
(* (src/src/store/workflow-store.tsx), the canvas callbacks that drive it  *)
(* (src/src/app/page.tsx), and the invocation client with its stream read  *)
(* loop (src/unnamed/part_000, lib/api.ts).                                *)
(*                                                                         *)
(* Ids are uuids in the program; here the ids of nodes and edges are fresh  *)
(* naturals drawn from one counter, which like uuidv4() never repeats.     *)
(* Text is a sequence of one-character strings; the JSON text of a chat    *)
(* message is written with one character for each member (see JSONstringify).*)
(***************************************************************************)
EXTENDS Integers, Sequences, FiniteSets, TLC

VARIABLES
    nodes,           \* store.nodes: sequence of nodes, in store order
    edges,           \* store.edges: sequence of edges, in store order
    selectedNodeId,  \* store.selectedNodeId (NullId for null)
    isInteractMode,  \* store.isInteractMode
    chatMessages,    \* store.chatMessages: sequence of messages
    nextId,          \* the next id uuidv4() returns
    edgesAdded,      \* number of edges onConnect has put into the store so far
    updates,         \* number of updateNodeParams calls so far
    lastCall,        \* what the caller saw of its last call of a function that
                     \* only reads the store: the validator's answer to the
                     \* canvas, or the serializer's payload
    wire,            \* the response to the fetch of callInvokeAPI, and how much
                     \* of its body the reader has handed over
    pc,              \* position of handleSendMessage: "idle", "fetching" (fetch
                     \* awaited), "reading" (in the read loop), "done"
                     \* (callInvokeAPI has returned)
    session          \* the chat panels: how many InteractNode components
                     \* have been mounted, which one is mounted (0 for none),
                     \* its isLoading, the panels whose callInvokeAPI
                     \* has not returned, and those of them whose call has
                     \* handed a token fragment to the store

vars == <<nodes, edges, selectedNodeId, isInteractMode, chatMessages,
          nextId, edgesAdded, updates, lastCall, wire, pc, session>>

storeVars == <<nodes, edges, selectedNodeId, isInteractMode, chatMessages>>

-----------------------------------------------------------------------------
(* Bounds of the model *)

\* ids uuidv4() mints in one run: nodes dropped plus edges drawn
MaxIds == 4
\* settings forms saved in one run
MaxUpdates == 1
\* the user sends a query while the history holds fewer messages than this
MaxAsked == 2
\* event records in one response body
MaxRecords == 2
\* messages in the chat history when the store is driven directly
MaxHistory == 2
\* characters in the content of one message when the store is driven directly
MaxContent == 2
\* InteractNode components mounted
MaxMounts == 2

-----------------------------------------------------------------------------
(* Values *)

NullId == 0
StartId == 1
EndId == 2

NullHandle == "null"
DirectHandle == "target-direct"
ToolHandle == "target-tool"
Handles == {NullHandle, DirectHandle, ToolHandle}

\* the node types the toolbar palette offers for dropping
PaletteTypes == {"LLMNode", "ToolNode", "A2ANode"}

\* every id a connection or a deletion may name: null, START, END, every id
\* uuidv4() can mint, and one it never mints
IdUniverse == NullId .. (EndId + MaxIds + 1)

NoParams == [defined |-> FALSE, kv |-> {}]
EmptyParams == [defined |-> TRUE, kv |-> {}]

initialNodes ==
    << [id |-> StartId, type |-> "START", name |-> "User Query Input", params |-> NoParams],
       [id |-> EndId, type |-> "END", name |-> "Final Output", params |-> NoParams] >>

\* Array.prototype.find by id: the first node with that id, or NoNode
NoNode == [id |-> NullId, type |-> "undefined", name |-> "", params |-> NoParams]

FindNode(ns, id) ==
    LET found == {i \in 1..Len(ns) : ns[i].id = id}
    IN  IF found = {} THEN NoNode
        ELSE ns[CHOOSE i \in found : \A j \in found : i <= j]

NodeIds(ns) == {ns[i].id : i \in 1..Len(ns)}

Connections ==
    [source : IdUniverse, target : IdUniverse,
     sourceHandle : {NullHandle}, targetHandle : Handles]

\* what the canvas saw of its last call of the validator: the answer
NoCall == [op |-> "none", result |-> FALSE]

\* no response yet. status: "none", "ok", "422", "failed"; items: the event
\* records the backend put into the body, well-formed or not; records: the
\* chat messages of the well-formed ones; body: the text of the body; pos:
\* the characters read so far; base: the history when the response arrived;
\* prior: the history when handleSendMessage was called; backend: what the
\* backend answered to the proxy route; response: what the route answered
\* to the client
NoAnswer == [status |-> 0, items |-> <<>>, body |-> <<>>]

NoResponse ==
    [status |-> "none", items |-> <<>>, records |-> <<>>, body |-> <<>>,
     pos |-> 0, base |-> <<>>, prior |-> <<>>,
     backend |-> NoAnswer, response |-> NoAnswer]

-----------------------------------------------------------------------------
(* The connection validator: workflow-store.tsx, isValidConnection *)

\* edges.some(edge => edge.target === target && edge.targetHandle === h)
SlotOccupied(es, target, h) ==
    \E i \in 1..Len(es) : es[i].target = target /\ es[i].targetHandle = h

\* The validator without one of its checks (each a check that is easy to lose).
isValidConnection_NoDirectSlot(ns, es, c) ==
    LET sourceNode == FindNode(ns, c.source)
        targetNode == FindNode(ns, c.target)
    IN  IF sourceNode = NoNode \/ targetNode = NoNode \/ c.source = c.target
            THEN FALSE
        ELSE IF targetNode.type = "START" \/ sourceNode.type = "END"
            THEN FALSE
        ELSE IF targetNode.type = "ToolNode"
            THEN FALSE
        ELSE IF sourceNode.type = "ToolNode"
                /\ (targetNode.type # "LLMNode" \/ c.targetHandle # ToolHandle)
            THEN FALSE
        ELSE IF sourceNode.type # "ToolNode" /\ c.targetHandle = ToolHandle
            THEN FALSE
        ELSE IF c.targetHandle = ToolHandle /\ SlotOccupied(es, c.target, ToolHandle)
            THEN FALSE
        ELSE TRUE

isValidConnection_NoStartEnd(ns, es, c) ==
    LET sourceNode == FindNode(ns, c.source)
        targetNode == FindNode(ns, c.target)
    IN  IF sourceNode = NoNode \/ targetNode = NoNode \/ c.source = c.target
            THEN FALSE
        ELSE IF targetNode.type = "ToolNode"
            THEN FALSE
        ELSE IF sourceNode.type = "ToolNode"
                /\ (targetNode.type # "LLMNode" \/ c.targetHandle # ToolHandle)
            THEN FALSE
        ELSE IF sourceNode.type # "ToolNode" /\ c.targetHandle = ToolHandle
            THEN FALSE
        ELSE IF c.targetHandle = ToolHandle /\ SlotOccupied(es, c.target, ToolHandle)
            THEN FALSE
        ELSE IF targetNode.type = "LLMNode" /\ c.targetHandle = DirectHandle
                /\ SlotOccupied(es, c.target, DirectHandle)
            THEN FALSE
        ELSE TRUE

isValidConnection_NoToolOnly(ns, es, c) ==
    LET sourceNode == FindNode(ns, c.source)
        targetNode == FindNode(ns, c.target)
    IN  IF sourceNode = NoNode \/ targetNode = NoNode \/ c.source = c.target
            THEN FALSE
        ELSE IF targetNode.type = "START" \/ sourceNode.type = "END"
            THEN FALSE
        ELSE IF targetNode.type = "ToolNode"
            THEN FALSE
        ELSE IF sourceNode.type = "ToolNode"
                /\ (targetNode.type # "LLMNode" \/ c.targetHandle # ToolHandle)
            THEN FALSE
        ELSE IF c.targetHandle = ToolHandle /\ SlotOccupied(es, c.target, ToolHandle)
            THEN FALSE
        ELSE IF targetNode.type = "LLMNode" /\ c.targetHandle = DirectHandle
                /\ SlotOccupied(es, c.target, DirectHandle)
            THEN FALSE
        ELSE TRUE

\* the direct-slot check made for every target type, not only for LLM nodes
isValidConnection_DirectAnyType(ns, es, c) ==
    LET sourceNode == FindNode(ns, c.source)
        targetNode == FindNode(ns, c.target)
    IN  IF sourceNode = NoNode \/ targetNode = NoNode \/ c.source = c.target
            THEN FALSE
        ELSE IF targetNode.type = "START" \/ sourceNode.type = "END"
            THEN FALSE
        ELSE IF targetNode.type = "ToolNode"
            THEN FALSE
        ELSE IF sourceNode.type = "ToolNode"
                /\ (targetNode.type # "LLMNode" \/ c.targetHandle # ToolHandle)
            THEN FALSE
        ELSE IF sourceNode.type # "ToolNode" /\ c.targetHandle = ToolHandle
            THEN FALSE
        ELSE IF c.targetHandle = ToolHandle /\ SlotOccupied(es, c.target, ToolHandle)
            THEN FALSE
        ELSE IF c.targetHandle = DirectHandle
                /\ SlotOccupied(es, c.target, DirectHandle)
            THEN FALSE
        ELSE TRUE

\* the nodes one edge away from the nodes of S, and S
Successors(es, S) ==
    S \cup {es[i].target : i \in {j \in 1..Len(es) : es[j].source \in S}}

RECURSIVE ReachableIn(_, _, _)
ReachableIn(es, S, n) ==
    IF n = 0 THEN S ELSE ReachableIn(es, Successors(es, S), n - 1)

\* a directed path of one edge or more leads from a to b
Reaches(es, a, b) ==
    b \in ReachableIn(es,
            {es[i].target : i \in {j \in 1..Len(es) : es[j].source = a}},
            Len(es))

\* a validator that refuses a connection whose target leads back to its
\* source
isValidConnection_NoCycles(ns, es, c) ==
    LET sourceNode == FindNode(ns, c.source)
        targetNode == FindNode(ns, c.target)
    IN  IF sourceNode = NoNode \/ targetNode = NoNode \/ c.source = c.target
            THEN FALSE
        ELSE IF targetNode.type = "START" \/ sourceNode.type = "END"
            THEN FALSE
        ELSE IF targetNode.type = "ToolNode"
            THEN FALSE
        ELSE IF sourceNode.type = "ToolNode"
                /\ (targetNode.type # "LLMNode" \/ c.targetHandle # ToolHandle)
            THEN FALSE
        ELSE IF sourceNode.type # "ToolNode" /\ c.targetHandle = ToolHandle
            THEN FALSE
        ELSE IF c.targetHandle = ToolHandle /\ SlotOccupied(es, c.target, ToolHandle)
            THEN FALSE
        ELSE IF targetNode.type = "LLMNode" /\ c.targetHandle = DirectHandle
                /\ SlotOccupied(es, c.target, DirectHandle)
            THEN FALSE
        ELSE IF Reaches(es, c.target, c.source)
            THEN FALSE
        ELSE TRUE

\* a validator that lets one edge only into a default handle
isValidConnection_OneEdgePerTarget(ns, es, c) ==
    LET sourceNode == FindNode(ns, c.source)
        targetNode == FindNode(ns, c.target)
    IN  IF sourceNode = NoNode \/ targetNode = NoNode \/ c.source = c.target
            THEN FALSE
        ELSE IF targetNode.type = "START" \/ sourceNode.type = "END"
            THEN FALSE
        ELSE IF targetNode.type = "ToolNode"
            THEN FALSE
        ELSE IF sourceNode.type = "ToolNode"
                /\ (targetNode.type # "LLMNode" \/ c.targetHandle # ToolHandle)
            THEN FALSE
        ELSE IF sourceNode.type # "ToolNode" /\ c.targetHandle = ToolHandle
            THEN FALSE
        ELSE IF c.targetHandle = ToolHandle /\ SlotOccupied(es, c.target, ToolHandle)
            THEN FALSE
        ELSE IF targetNode.type = "LLMNode" /\ c.targetHandle = DirectHandle
                /\ SlotOccupied(es, c.target, DirectHandle)
            THEN FALSE
        ELSE IF c.targetHandle = NullHandle
                /\ SlotOccupied(es, c.target, NullHandle)
            THEN FALSE
        ELSE TRUE

isValidConnection(ns, es, c) ==
    LET sourceNode == FindNode(ns, c.source)
        targetNode == FindNode(ns, c.target)
    IN  IF sourceNode = NoNode \/ targetNode = NoNode \/ c.source = c.target
            THEN FALSE
        ELSE IF targetNode.type = "START" \/ sourceNode.type = "END"
            THEN FALSE
        ELSE IF targetNode.type = "ToolNode"
            THEN FALSE
        ELSE IF sourceNode.type = "ToolNode"
                /\ (targetNode.type # "LLMNode" \/ c.targetHandle # ToolHandle)
            THEN FALSE
        ELSE IF sourceNode.type # "ToolNode" /\ c.targetHandle = ToolHandle
            THEN FALSE
        ELSE IF c.targetHandle = ToolHandle /\ SlotOccupied(es, c.target, ToolHandle)
            THEN FALSE
        ELSE IF targetNode.type = "LLMNode" /\ c.targetHandle = DirectHandle
                /\ SlotOccupied(es, c.target, DirectHandle)
            THEN FALSE
        ELSE TRUE

-----------------------------------------------------------------------------
(* Graph mutations of the store *)

\* reactflow's connectionExists: an edge with the same endpoints and handles
connectionExists(e, es) ==
    \E i \in 1..Len(es) :
        /\ es[i].source = e.source
        /\ es[i].target = e.target
        /\ es[i].sourceHandle = e.sourceHandle
        /\ es[i].targetHandle = e.targetHandle

\* reactflow's addEdge: refuse an edge without endpoints, skip a duplicate
\* connection, otherwise concat
addEdge(e, es) ==
    IF e.source = NullId \/ e.target = NullId THEN es
    ELSE IF connectionExists(e, es) THEN es
    ELSE Append(es, e)

\* the edge onConnect builds for a connection
newEdge(ns, c, id) ==
    [id |-> id,
     source |-> c.source,
     target |-> c.target,
     sourceHandle |-> c.sourceHandle,
     targetHandle |-> c.targetHandle,
     type |-> IF FindNode(ns, c.source).type = "ToolNode" THEN "dashed" ELSE "default",
     animated |-> FindNode(ns, c.source).type # "ToolNode"]

onConnect(ns, es, c, id) == addEdge(newEdge(ns, c, id), es)

addNode(ns, nodeType, id) ==
    Append(ns, [id |-> id, type |-> nodeType, name |-> nodeType, params |-> EmptyParams])

\* getConnectedEdges looking at the target end only
getConnectedEdges_TargetOnly(removeIds, es) ==
    SelectSeq(es, LAMBDA e : e.target \in removeIds)

\* getConnectedEdges looking at the source end only
getConnectedEdges_SourceOnly(removeIds, es) ==
    SelectSeq(es, LAMBDA e : e.source \in removeIds)

\* reactflow's getConnectedEdges: the edges with an endpoint among the nodes
getConnectedEdges(removeIds, es) ==
    SelectSeq(es, LAMBDA e : e.source \in removeIds \/ e.target \in removeIds)

EdgeIds(es) == {es[i].id : i \in 1..Len(es)}

\* deleteElements(nodesToRemove, edgesToRemove); both are given by their ids
deleteNodes_FirstOnly(ns, removeIds) ==
    IF removeIds = {} THEN ns
    ELSE SelectSeq(ns, LAMBDA n :
            n.id # (CHOOSE x \in removeIds : \A y \in removeIds : x <= y))

deleteNodes(ns, removeIds) ==
    SelectSeq(ns, LAMBDA n : n.id \notin removeIds)

\* the ids of the nodes themselves put into the set of edge ids to remove
deleteEdges_NodeIdsAsEdgeIds(es, removeIds, removeEdgeIds) ==
    LET allEdgesToRemove ==
            removeIds \cup removeEdgeIds \cup EdgeIds(getConnectedEdges(removeIds, es))
    IN  SelectSeq(es, LAMBDA e : e.id \notin allEdgesToRemove)

deleteEdges(es, removeIds, removeEdgeIds) ==
    LET allEdgesToRemove == removeEdgeIds \cup EdgeIds(getConnectedEdges(removeIds, es))
    IN  SelectSeq(es, LAMBDA e : e.id \notin allEdgesToRemove)

-----------------------------------------------------------------------------
(* Node settings: workflow-store.tsx, updateNodeParams *)

\* A params object is a set of <<key, value>> pairs with distinct keys.
Keys(kv) == {p[1] : p \in kv}

Lookup(kv, k) == IF k \in Keys(kv) THEN (CHOOSE p \in kv : p[1] = k)[2] ELSE ""

\* { ...a, ...b }: b's entries, and a's entries under the keys b lacks
Spread(a, b) == b \cup {p \in a : p[1] \notin Keys(b)}

\* the values a settings form may submit
ParamInputs ==
    { {<<"name", "Agent">>, <<"model", "gpt-4o">>} }

updateNode(node, newParams) ==
    [node EXCEPT
        \* newParams.name || node.data.name: an empty or absent name keeps the old
        !.name = IF Lookup(newParams, "name") # "" THEN Lookup(newParams, "name")
                 ELSE node.name,
        \* { ...node.data.params, ...newParams } and then delete newData.params.name
        !.params = [defined |-> TRUE,
                    kv |-> {p \in Spread(node.params.kv, newParams) : p[1] # "name"}]]

\* updateNodeParams that does not look at the id
updateNodeParams_EveryNode(ns, nodeId, newParams) ==
    [i \in 1..Len(ns) |-> updateNode(ns[i], newParams)]

updateNodeParams(ns, nodeId, newParams) ==
    [i \in 1..Len(ns) |->
        IF ns[i].id = nodeId THEN updateNode(ns[i], newParams) ELSE ns[i]]

-----------------------------------------------------------------------------
(* The canvas: which connections reactflow can offer (CustomNode.tsx) *)

\* showDefaultSource: every node but END renders a source handle
HasSourceHandle(type) == type # "END"

\* a CustomNode that renders the default target handle on an LLM node too
TargetHandles_DefaultOnLLM(type) ==
    IF type = "LLMNode" THEN {DirectHandle, ToolHandle, NullHandle}
    ELSE IF type \in {"START", "ToolNode"} THEN {}
    ELSE {NullHandle}

\* the target handles CustomNode renders for a node of a type: the two named
\* handles of an LLM node, the default (id-less) handle of END and A2A, none
\* for START and Tool
TargetHandles(type) ==
    IF type = "LLMNode" THEN {DirectHandle, ToolHandle}
    ELSE IF type \in {"START", "ToolNode"} THEN {}
    ELSE {NullHandle}

\* a drag from a rendered source handle to a rendered target handle
CanvasConnections(ns) ==
    UNION { { [source |-> ns[i].id, target |-> ns[j].id,
               sourceHandle |-> NullHandle, targetHandle |-> h] :
              h \in TargetHandles(ns[j].type) } :
            i \in {k \in 1..Len(ns) : HasSourceHandle(ns[k].type)},
            j \in 1..Len(ns) }

-----------------------------------------------------------------------------
(* The editor: the store driven by the canvas, the palette and the forms *)

\* no chat panel has been mounted yet
NoSession ==
    [mounts |-> 0, panel |-> 0, isLoading |-> FALSE, calls |-> {}, streamed |-> {}]

InitStore ==
    /\ nodes = initialNodes
    /\ edges = <<>>
    /\ selectedNodeId = NullId
    /\ isInteractMode = FALSE
    /\ chatMessages = <<>>

Init ==
    /\ InitStore
    /\ nextId = EndId + 1
    /\ edgesAdded = 0
    /\ updates = 0
    /\ lastCall = NoCall
    /\ wire = NoResponse
    /\ pc = "idle"
    /\ session = NoSession

\* page.tsx onDrop: addNode(type, position) with a type of the palette
AddNode(nodeType) ==
    /\ nextId <= EndId + MaxIds
    /\ nodes' = addNode(nodes, nodeType, nextId)
    /\ nextId' = nextId + 1
    /\ UNCHANGED <<edges, selectedNodeId, isInteractMode, chatMessages,
                   edgesAdded, updates, lastCall, wire, pc, session>>

\* a validator that connects what it accepts
IsValidConnection_Connects(c) ==
    /\ lastCall' = [op |-> "isValidConnection",
                    result |-> isValidConnection(nodes, edges, c)]
    /\ edges' = IF isValidConnection(nodes, edges, c)
                THEN onConnect(nodes, edges, c, nextId) ELSE edges
    /\ UNCHANGED <<nodes, selectedNodeId, isInteractMode, chatMessages,
                   nextId, edgesAdded, updates, wire, pc, session>>

\* The canvas calls isValidConnection(connection) while a connection is
\* dragged and keeps the answer.
IsValidConnection(c) ==
    /\ lastCall' = [op |-> "isValidConnection",
                    result |-> isValidConnection(nodes, edges, c)]
    /\ UNCHANGED <<nodes, edges, selectedNodeId, isInteractMode, chatMessages,
                   nextId, edgesAdded, updates, wire, pc, session>>

\* The canvas calls onConnect(connection) only for a connection the validator
\* accepted on the current graph.
OnConnect(c) ==
    /\ nextId <= EndId + MaxIds
    /\ isValidConnection(nodes, edges, c)
    /\ edges' = onConnect(nodes, edges, c, nextId)
    \* the id of an edge addEdge drops as a duplicate is never seen again
    /\ nextId' = IF edges' = edges THEN nextId ELSE nextId + 1
    /\ edgesAdded' = IF edges' = edges THEN edgesAdded ELSE edgesAdded + 1
    /\ UNCHANGED <<nodes, selectedNodeId, isInteractMode, chatMessages,
                   updates, lastCall, wire, pc, session>>

\* page.tsx onNodesDelete: deleteElements(deleted, [])
DeleteElements(removeIds) ==
    /\ nodes' = deleteNodes(nodes, removeIds)
    /\ edges' = deleteEdges(edges, removeIds, {})
    /\ UNCHANGED <<selectedNodeId, isInteractMode, chatMessages,
                   nextId, edgesAdded, updates, lastCall, wire, pc, session>>

\* a settings form's onSubmit: updateNodeParams(node.id, values)
UpdateNodeParams(nodeId, newParams) ==
    /\ updates < MaxUpdates
    /\ nodes' = updateNodeParams(nodes, nodeId, newParams)
    /\ updates' = updates + 1
    /\ UNCHANGED <<edges, selectedNodeId, isInteractMode, chatMessages,
                   nextId, edgesAdded, lastCall, wire, pc, session>>

\* SettingsPanel renders a form, and so a save, for a node of the store whose
\* type is configurable
Configurable(ns) ==
    {ns[i].id : i \in {j \in 1..Len(ns) : ns[j].type \in PaletteTypes}}

\* the nodes a deletion may name: START and END are created deletable: false;
\* the canvas hands over any selection of the other nodes of the store
Deletable(ns) == NodeIds(ns) \ {StartId, EndId}

\* ids that name no node: a node deleted before, an edge, or nextId, which
\* names nothing yet
Absent(ns) == ((EndId + 1) .. nextId) \ NodeIds(ns)

DeleteSets(ns) == ((SUBSET Deletable(ns)) \ {{}}) \cup { {n} : n \in Absent(ns) }

Next ==
    \/ \E t \in PaletteTypes : AddNode(t)
    \/ \E c \in Connections : OnConnect(c)
    \/ \E S \in DeleteSets(nodes) : DeleteElements(S)
    \/ \E id \in Configurable(nodes), p \in ParamInputs : UpdateNodeParams(id, p)

Spec == Init /\ [][Next]_vars

\* The editor without the settings forms.
NextGraph ==
    \/ \E t \in PaletteTypes : AddNode(t)
    \/ \E c \in Connections : OnConnect(c)
    \/ \E S \in DeleteSets(nodes) : DeleteElements(S)

SpecGraph == Init /\ [][NextGraph]_vars

\* The editor whose onConnect is called by the canvas only: for a connection
\* dragged between two rendered handles, and accepted by the validator.
NextCanvas ==
    \/ \E t \in PaletteTypes : AddNode(t)
    \/ \E c \in CanvasConnections(nodes) : OnConnect(c)
    \/ \E S \in DeleteSets(nodes) : DeleteElements(S)

SpecCanvas == Init /\ [][NextCanvas]_vars

\* The editor with the validator's answers to the canvas recorded.
NextValidate ==
    \/ \E t \in PaletteTypes : AddNode(t)
    \/ \E c \in Connections : OnConnect(c)
    \/ \E S \in DeleteSets(nodes) : DeleteElements(S)
    \/ \E c \in CanvasConnections(nodes) : IsValidConnection(c)

SpecValidate == Init /\ [][NextValidate]_vars

-----------------------------------------------------------------------------
(* The chat history: workflow-store.tsx, addChatMessage, streamMessage *)

\* A chat message: node is node.node_id, or "undefined" without a node;
\* stream_type is "undefined" when the member is absent; content is text.
Message(node, type, stream_type, content) ==
    [node |-> node, type |-> type, stream_type |-> stream_type, content |-> content]

addChatMessage(cm, message) == Append(cm, message)

\* streamMessage that puts the content of the chunk before the content that
\* is there
streamMessage_Prepends(cm, chunk) ==
    IF Len(cm) = 0 THEN <<chunk>>
    ELSE LET lastMessage == cm[Len(cm)]
             isSameStream ==
                /\ lastMessage.node = chunk.node
                /\ lastMessage.type = chunk.type
                /\ lastMessage.stream_type = chunk.stream_type
             updatedMessage ==
                [lastMessage EXCEPT !.content = chunk.content \o lastMessage.content]
         IN  IF isSameStream
             THEN SubSeq(cm, 1, Len(cm) - 1) \o <<updatedMessage>>
             ELSE Append(cm, chunk)

\* streamMessage that does not look at the node of the chunk
streamMessage_IgnoresNode(cm, chunk) ==
    IF Len(cm) = 0 THEN <<chunk>>
    ELSE LET lastMessage == cm[Len(cm)]
             isSameStream ==
                /\ lastMessage.type = chunk.type
                /\ lastMessage.stream_type = chunk.stream_type
             updatedMessage ==
                [lastMessage EXCEPT !.content = lastMessage.content \o chunk.content]
         IN  IF isSameStream
             THEN SubSeq(cm, 1, Len(cm) - 1) \o <<updatedMessage>>
             ELSE Append(cm, chunk)

streamMessage(cm, chunk) ==
    IF Len(cm) = 0 THEN <<chunk>>
    ELSE LET lastMessage == cm[Len(cm)]
             isSameStream ==
                /\ lastMessage.node = chunk.node
                /\ lastMessage.type = chunk.type
                /\ lastMessage.stream_type = chunk.stream_type
             updatedMessage ==
                [lastMessage EXCEPT !.content = lastMessage.content \o chunk.content]
         IN  IF isSameStream
             THEN SubSeq(cm, 1, Len(cm) - 1) \o <<updatedMessage>>
             ELSE Append(cm, chunk)

\* the messages the store is given when it is driven directly: a token
\* fragment of node A with either content, and four that differ from it in
\* the node, in having no node, in the type and in the stream type
ChatInputs ==
    { Message("A", "ai", "token", <<"x">>),
      Message("A", "ai", "token", <<"y">>),
      Message("B", "ai", "token", <<"x">>),
      Message("undefined", "ai", "token", <<"x">>),
      Message("A", "tool", "token", <<"x">>),
      Message("A", "ai", "undefined", <<"x">>) }

AddChatMessage(message) ==
    /\ Len(chatMessages) < MaxHistory
    /\ chatMessages' = addChatMessage(chatMessages, message)
    /\ UNCHANGED <<nodes, edges, selectedNodeId, isInteractMode,
                   nextId, edgesAdded, updates, lastCall, wire, pc, session>>

StreamMessage(chunk) ==
    /\ LET r == streamMessage(chatMessages, chunk)
       IN  Len(r) <= MaxHistory /\ Len(r[Len(r)].content) <= MaxContent
    /\ chatMessages' = streamMessage(chatMessages, chunk)
    /\ UNCHANGED <<nodes, edges, selectedNodeId, isInteractMode,
                   nextId, edgesAdded, updates, lastCall, wire, pc, session>>

ClearChatMessages ==
    /\ chatMessages' = <<>>
    /\ UNCHANGED <<nodes, edges, selectedNodeId, isInteractMode,
                   nextId, edgesAdded, updates, lastCall, wire, pc, session>>

\* The chat history driven directly through the three store functions.
NextChat ==
    \/ \E m \in ChatInputs : AddChatMessage(m)
    \/ \E chunk \in ChatInputs : StreamMessage(chunk)
    \/ ClearChatMessages

SpecChat == Init /\ [][NextChat]_vars

-----------------------------------------------------------------------------
(* The invocation client: lib/api.ts, callInvokeAPI, and its caller *)

Whitespace == {" ", "\n"}

\* 'data: '
DataPrefix == <<"d", "a", "t", "a", ":", " ">>

\* '\n\n'
Delimiter == <<"\n", "\n">>

\* String.prototype.split with the separator '\n\n': the pieces between the
\* occurrences of the separator, found from the left
RECURSIVE split(_)
split(s) ==
    LET at == {i \in 1..(Len(s) - 1) : s[i] = "\n" /\ s[i + 1] = "\n"}
    IN  IF at = {} THEN <<s>>
        ELSE LET i == CHOOSE k \in at : \A j \in at : k <= j
             IN  <<SubSeq(s, 1, i - 1)>> \o split(SubSeq(s, i + 2, Len(s)))

\* String.prototype.trim
trim(s) ==
    LET keep == {i \in 1..Len(s) : s[i] \notin Whitespace}
    IN  IF keep = {} THEN <<>>
        ELSE SubSeq(s, CHOOSE i \in keep : \A j \in keep : i <= j,
                       CHOOSE i \in keep : \A j \in keep : i >= j)

startsWith(s, prefix) ==
    Len(s) >= Len(prefix) /\ SubSeq(s, 1, Len(prefix)) = prefix

\* String.prototype.substring(n)
substring(s, n) == SubSeq(s, n + 1, Len(s))

\* the characters that stand for the members of a message in its JSON text
NodeCode == [n \in {"A", "B", "undefined"} |-> IF n = "undefined" THEN "-" ELSE n]
TypeCode == [t \in {"ai", "tool"} |-> IF t = "ai" THEN "i" ELSE "o"]
StreamTypeCode == [t \in {"token", "undefined"} |-> IF t = "token" THEN "k" ELSE "-"]
ContentChars == {"x", "y"}

\* the JSON text of a message, as the backend writes it
JSONstringify(m) ==
    <<"{", NodeCode[m.node], TypeCode[m.type], StreamTypeCode[m.stream_type]>>
        \o m.content \o <<"}">>

\* JSON.parse: the value of a JSON text, which may have white space around
\* it; ok is FALSE where JSON.parse throws
NoValue == Message("undefined", "undefined", "undefined", <<>>)

JSONparse(s) ==
    LET t == trim(s)
        wellFormed ==
            /\ Len(t) >= 5
            /\ t[1] = "{"
            /\ t[Len(t)] = "}"
            /\ \E n \in DOMAIN NodeCode : NodeCode[n] = t[2]
            /\ \E y \in DOMAIN TypeCode : TypeCode[y] = t[3]
            /\ \E y \in DOMAIN StreamTypeCode : StreamTypeCode[y] = t[4]
            /\ \A i \in 5..(Len(t) - 1) : t[i] \in ContentChars
    IN  IF wellFormed
        THEN [ok |-> TRUE,
              value |-> Message(CHOOSE n \in DOMAIN NodeCode : NodeCode[n] = t[2],
                                CHOOSE y \in DOMAIN TypeCode : TypeCode[y] = t[3],
                                CHOOSE y \in DOMAIN StreamTypeCode : StreamTypeCode[y] = t[4],
                                SubSeq(t, 5, Len(t) - 1))]
        ELSE [ok |-> FALSE, value |-> NoValue]

\* every message streamed, whatever its stream type
deliver_StreamsAll(cm, parsedJson) == streamMessage(cm, parsedJson)

\* what the loop does with one message: a token fragment is streamed, any
\* other message is added
deliver(cm, parsedJson) ==
    IF parsedJson.stream_type = "token" THEN streamMessage(cm, parsedJson)
    ELSE addChatMessage(cm, parsedJson)

\* the body of the for loop: one line of a read
processLine(cm, line) ==
    LET jsonStr == substring(line, 6)
        parsed == JSONparse(jsonStr)
    IN  IF parsed.ok THEN deliver(cm, parsed.value)
        ELSE cm   \* caught, logged to the console, dropped

\* a loop that is left at the first line that does not parse
RECURSIVE processLines_StopsAtFailure(_, _)
processLines_StopsAtFailure(cm, lines) ==
    IF lines = <<>> THEN cm
    ELSE IF ~JSONparse(substring(Head(lines), 6)).ok THEN cm
    ELSE processLines_StopsAtFailure(processLine(cm, Head(lines)), Tail(lines))

\* a loop that takes the lines of a read from the last to the first
RECURSIVE processLines_LastFirst(_, _)
processLines_LastFirst(cm, lines) ==
    IF lines = <<>> THEN cm
    ELSE processLine(processLines_LastFirst(cm, Tail(lines)), Head(lines))

RECURSIVE processLines(_, _)
processLines(cm, lines) ==
    IF lines = <<>> THEN cm
    ELSE processLines(processLine(cm, Head(lines)), Tail(lines))

\* the body of the while loop: one read, decoded to the text chunk
processChunk(cm, chunk) ==
    processLines(cm,
        SelectSeq(split(chunk), LAMBDA line : startsWith(trim(line), DataPrefix)))

\* one well-formed event record
Record(m) == DataPrefix \o JSONstringify(m) \o Delimiter

\* an event record whose payload is no JSON: the JSON text of a message
\* without its closing brace
MalformedRecord(m) ==
    DataPrefix \o SubSeq(JSONstringify(m), 1, Len(JSONstringify(m)) - 1) \o Delimiter

\* an item of a body is an event record, well-formed (ok) or malformed
ItemText(item) ==
    IF item.ok THEN Record(item.message) ELSE MalformedRecord(item.message)

\* the text of the body that a sequence of items makes
RECURSIVE Body(_)
Body(items) ==
    IF items = <<>> THEN <<>> ELSE ItemText(Head(items)) \o Body(Tail(items))

\* the messages of the well-formed items, in their order
RECURSIVE WellFormed(_)
WellFormed(items) ==
    IF items = <<>> THEN <<>>
    ELSE (IF Head(items).ok THEN <<Head(items).message>> ELSE <<>>)
            \o WellFormed(Tail(items))

\* the messages the backend sends in the model
WireMessages ==
    { Message("A", "ai", "token", <<"x">>),
      Message("A", "ai", "token", <<"y">>),
      Message("B", "ai", "token", <<"x">>),
      Message("A", "ai", "undefined", <<"x">>),
      Message("undefined", "tool", "undefined", <<"y">>) }

\* the items of a body: each of the messages well-formed, and one malformed
WireItems ==
    { [ok |-> TRUE, message |-> m] : m \in WireMessages }
        \cup { [ok |-> FALSE, message |-> Message("A", "ai", "token", <<"x">>)] }

WireStreams == UNION { [1..n -> WireItems] : n \in 0..MaxRecords }

\* the messages the history of a session may come to hold: a query and the
\* records of one full body
MaxChat == MaxRecords + 1

userMessage == Message("undefined", "user", "undefined", <<"q">>)
configErrorMessage == Message("undefined", "error", "undefined", <<"invalid">>)
errorMessage == Message("undefined", "error", "undefined", <<"failed">>)

\* Toolbar handleRunClick in edit mode: clearChatMessages(), then
\* setInteractMode(true), which clears the selection
EnterRunMode ==
    /\ ~isInteractMode
    /\ chatMessages' = <<>>
    /\ selectedNodeId' = NullId
    /\ isInteractMode' = TRUE
    /\ UNCHANGED <<nodes, edges, nextId, edgesAdded, updates, lastCall, wire, pc, session>>

\* InteractNode handleSendMessage up to its await: the node is rendered in
\* run mode only, and the input is disabled while isLoading
HandleSendMessage ==
    /\ isInteractMode
    /\ pc = "idle"
    /\ Len(chatMessages) < MaxAsked
    /\ chatMessages' = addChatMessage(chatMessages, userMessage)
    /\ wire' = [NoResponse EXCEPT !.prior = chatMessages]
    /\ pc' = "fetching"
    /\ UNCHANGED <<nodes, edges, selectedNodeId, isInteractMode,
                   nextId, edgesAdded, updates, lastCall, session>>

\* the bodies a 422 response has in the model: the JSON text of an object,
\* or text that is no JSON
ErrorBodies == { JSONstringify(m) : m \in WireMessages } \cup { <<"x">> }

\* a 422 whose body is put before the user
Respond422_ShowsBody(errorBody) ==
    /\ pc = "fetching"
    /\ chatMessages' = addChatMessage(chatMessages,
                            [configErrorMessage EXCEPT !.content = errorBody])
    /\ wire' = [wire EXCEPT !.status = "422", !.body = errorBody]
    /\ pc' = "done"
    /\ UNCHANGED <<nodes, edges, selectedNodeId, isInteractMode,
                   nextId, edgesAdded, updates, lastCall, session>>

\* the response has status 422: response.json() is awaited and logged, the
\* fixed message is added and callInvokeAPI returns; a body that is no JSON
\* makes response.json() reject, which the catch of callInvokeAPI takes
Respond422(errorBody) ==
    /\ pc = "fetching"
    /\ IF JSONparse(errorBody).ok
       THEN /\ chatMessages' = addChatMessage(chatMessages, configErrorMessage)
            /\ wire' = [wire EXCEPT !.status = "422", !.body = errorBody]
       ELSE /\ chatMessages' = addChatMessage(chatMessages, errorMessage)
            /\ wire' = [wire EXCEPT !.status = "failed", !.body = errorBody]
    /\ pc' = "done"
    /\ UNCHANGED <<nodes, edges, selectedNodeId, isInteractMode,
                   nextId, edgesAdded, updates, lastCall, session>>

\* a failure whose error message takes the place of the history
RespondFailure_ReplacesHistory ==
    /\ pc = "fetching"
    /\ chatMessages' = <<errorMessage>>
    /\ wire' = [wire EXCEPT !.status = "failed"]
    /\ pc' = "done"
    /\ UNCHANGED <<nodes, edges, selectedNodeId, isInteractMode,
                   nextId, edgesAdded, updates, lastCall, session>>

\* fetch rejects, or the response is not ok or has no body: thrown and caught
RespondFailure ==
    /\ pc = "fetching"
    /\ chatMessages' = addChatMessage(chatMessages, errorMessage)
    /\ wire' = [wire EXCEPT !.status = "failed"]
    /\ pc' = "done"
    /\ UNCHANGED <<nodes, edges, selectedNodeId, isInteractMode,
                   nextId, edgesAdded, updates, lastCall, session>>

\* the response is ok and has a body: the reader is taken
RespondOk(items) ==
    /\ pc = "fetching"
    /\ Len(chatMessages) + Len(items) <= MaxChat
    /\ wire' = [wire EXCEPT !.status = "ok", !.items = items,
                            !.records = WellFormed(items),
                            !.body = Body(items), !.pos = 0,
                            !.base = chatMessages]
    /\ pc' = "reading"
    /\ UNCHANGED <<nodes, edges, selectedNodeId, isInteractMode, chatMessages,
                   nextId, edgesAdded, updates, lastCall, session>>

\* one turn of the while loop: reader.read() hands over the next k characters
\* of the body, and every line of them is processed
Read(k) ==
    /\ pc = "reading"
    /\ k \in 1..(Len(wire.body) - wire.pos)
    /\ chatMessages' =
            processChunk(chatMessages, SubSeq(wire.body, wire.pos + 1, wire.pos + k))
    /\ wire' = [wire EXCEPT !.pos = wire.pos + k]
    /\ UNCHANGED <<nodes, edges, selectedNodeId, isInteractMode,
                   nextId, edgesAdded, updates, lastCall, pc, session>>

\* reader.read() answers done: break
ReadDone ==
    /\ pc = "reading"
    /\ wire.pos = Len(wire.body)
    /\ pc' = "done"
    /\ UNCHANGED <<nodes, edges, selectedNodeId, isInteractMode, chatMessages,
                   nextId, edgesAdded, updates, lastCall, wire, session>>

\* a failed read that ends the loop without a word to the user
ReadFails_Silent ==
    /\ pc = "reading"
    /\ wire' = [wire EXCEPT !.status = "failed"]
    /\ pc' = "done"
    /\ UNCHANGED <<nodes, edges, selectedNodeId, isInteractMode, chatMessages,
                   nextId, edgesAdded, updates, lastCall, session>>

\* reader.read() rejects: caught by the catch of callInvokeAPI
ReadFails ==
    /\ pc = "reading"
    /\ chatMessages' = addChatMessage(chatMessages, errorMessage)
    /\ wire' = [wire EXCEPT !.status = "failed"]
    /\ pc' = "done"
    /\ UNCHANGED <<nodes, edges, selectedNodeId, isInteractMode,
                   nextId, edgesAdded, updates, lastCall, session>>

\* a handleSendMessage that leaves isLoading set after its await
Finish_KeepsLoading ==
    /\ pc = "done"
    /\ UNCHANGED vars

\* handleSendMessage after its await: setIsLoading(false)
Finish ==
    /\ pc = "done"
    /\ pc' = "idle"
    /\ UNCHANGED <<nodes, edges, selectedNodeId, isInteractMode, chatMessages,
                   nextId, edgesAdded, updates, lastCall, wire, session>>

\* One run session: the user enters run mode and chats.
NextIngest ==
    \/ EnterRunMode
    \/ HandleSendMessage
    \/ \E errorBody \in ErrorBodies : Respond422(errorBody)
    \/ RespondFailure
    \/ \E items \in WireStreams : RespondOk(items)
    \/ \E k \in 1..Len(wire.body) : Read(k)
    \/ ReadDone
    \/ ReadFails
    \/ Finish

SpecIngest == Init /\ [][NextIngest]_vars

-----------------------------------------------------------------------------
(* The proxy route: app/api/invoke/route.ts, between callInvokeAPI and the
   backend *)

\* Response.ok
ok(status) == status \in 200..299

\* the body of the route's own error response, a JSON text that is no chat
\* message
ProxyErrorBody == <<"{", "e", "}">>

\* what the backend may answer: a stream, a rejection of the workflow with
\* a body that is JSON or not, or a server error
PythonResponses ==
    { [status |-> 200, items |-> items, body |-> <<>>] : items \in WireStreams }
    \cup { [status |-> 422, items |-> <<>>, body |-> b] : b \in ErrorBodies }
    \cup { [status |-> 500, items |-> <<>>, body |-> <<"x">>] }

\* a route that hands the backend's answer on as it is
POST_PassThrough(pythonResponse) == pythonResponse

\* POST: an answer that is not ok is thrown and caught, and the route
\* answers 500 with its own body; the stream of an ok answer is handed on
\* in a new Response, whose status is 200
POST(pythonResponse) ==
    IF ~ok(pythonResponse.status)
    THEN [status |-> 500, items |-> <<>>, body |-> ProxyErrorBody]
    ELSE [status |-> 200, items |-> pythonResponse.items, body |-> <<>>]

\* the backend answers the route, and the route answers the client
Proxy(pythonResponse) ==
    /\ pc = "fetching"
    /\ wire.response = NoAnswer
    /\ Len(chatMessages) + Len(pythonResponse.items) <= MaxChat
    /\ wire' = [wire EXCEPT !.backend = pythonResponse,
                            !.response = POST(pythonResponse)]
    /\ UNCHANGED <<nodes, edges, selectedNodeId, isInteractMode, chatMessages,
                   nextId, edgesAdded, updates, lastCall, pc, session>>

\* callInvokeAPI after its fetch: the 422 path, the throw on a response
\* that is not ok, or the reader
Receive ==
    /\ wire.response # NoAnswer
    /\ IF wire.response.status = 422 THEN Respond422(wire.response.body)
       ELSE IF ~ok(wire.response.status) THEN RespondFailure
       ELSE RespondOk(wire.response.items)

\* One run session against a backend behind the route.
NextProxy ==
    \/ EnterRunMode
    \/ HandleSendMessage
    \/ \E pythonResponse \in PythonResponses : Proxy(pythonResponse)
    \/ Receive
    \/ \E k \in 1..Len(wire.body) : Read(k)
    \/ ReadDone
    \/ ReadFails
    \/ Finish

SpecProxy == Init /\ [][NextProxy]_vars

-----------------------------------------------------------------------------
\* what the transport does to an exchange: it answers the fetch, hands over
\* a piece of the body, signals the end of the data, or fails
Transport ==
    \/ \E errorBody \in ErrorBodies : Respond422(errorBody)
    \/ RespondFailure
    \/ \E items \in WireStreams : RespondOk(items)
    \/ \E k \in 1..Len(wire.body) : Read(k)
    \/ ReadDone
    \/ ReadFails

\* The exchanges of a session whose transport does not stay silent for ever,
\* and whose awaits are resumed once they are settled: every await of
\* callInvokeAPI (fetch, response.json, reader.read) is settled by the
\* transport, and the await of handleSendMessage by the return of
\* callInvokeAPI.
SpecIngestLive == SpecIngest /\ WF_vars(Transport) /\ WF_vars(Finish)

-----------------------------------------------------------------------------
(* The serializer: lib/api.ts, generateWorkflowPayload *)

\* params.key, params being node.data.params: undefined without params or
\* without the key
Param(node, key) ==
    IF node.params.defined /\ key \in Keys(node.params.kv)
    THEN Lookup(node.params.kv, key) ELSE "undefined"

\* an output node that has an empty param_dict where the code has none
workflowNode_EmptyParamDict(node) ==
    IF node.type = "LLMNode" THEN
        [type |-> "LLMNode", node_id |-> node.id, name |-> node.name,
         param_dict |->
            [model |-> [config |-> [model_provider |-> Param(node, "modelProvider"),
                                    model |-> Param(node, "model"),
                                    api_key_name |-> Param(node, "apiKeyName")]],
             parameters |-> [temperature |-> Param(node, "temperature"),
                             system_prompt |-> Param(node, "systemPrompt")]]]
    ELSE IF node.type = "ToolNode" THEN
        [type |-> "ToolNode", node_id |-> node.id, name |-> node.name,
         param_dict |-> [tool_endpoint |-> Param(node, "toolEndpoint")]]
    ELSE IF node.type = "A2ANode" THEN
        [type |-> "A2ANode", node_id |-> node.id, name |-> node.name,
         param_dict |-> [api_base_url |-> Param(node, "apiBaseUrl")]]
    ELSE
        [type |-> node.type, node_id |-> node.id, name |-> node.name,
         param_dict |-> <<>>]

\* the body of nodes.map: the switch over node.data.type
workflowNode(node) ==
    IF node.type = "LLMNode" THEN
        [type |-> "LLMNode", node_id |-> node.id, name |-> node.name,
         param_dict |->
            [model |-> [config |-> [model_provider |-> Param(node, "modelProvider"),
                                    model |-> Param(node, "model"),
                                    api_key_name |-> Param(node, "apiKeyName")]],
             parameters |-> [temperature |-> Param(node, "temperature"),
                             system_prompt |-> Param(node, "systemPrompt")]]]
    ELSE IF node.type = "ToolNode" THEN
        [type |-> "ToolNode", node_id |-> node.id, name |-> node.name,
         param_dict |-> [tool_endpoint |-> Param(node, "toolEndpoint")]]
    ELSE IF node.type = "A2ANode" THEN
        [type |-> "A2ANode", node_id |-> node.id, name |-> node.name,
         param_dict |-> [api_base_url |-> Param(node, "apiBaseUrl")]]
    ELSE
        [type |-> node.type, node_id |-> node.id, name |-> node.name]

\* what a call is left with when sourceNode is undefined: reading
\* sourceNode.data throws
TypeError == [threw |-> "TypeError"]

\* a connection typed by the node the edge enters
workflowConnection_ByTarget(ns, edge) ==
    [type |-> IF FindNode(ns, edge.target).type = "ToolNode"
              THEN "tool-connection" ELSE "direct",
     connection_id |-> edge.id,
     source_node_id |-> edge.source,
     destination_node_id |-> edge.target]

\* the body of edges.map: nodes.find(...)! is undefined when no node has the
\* id of the source, and the read of its data throws
workflowConnection(ns, edge) ==
    IF FindNode(ns, edge.source) = NoNode THEN TypeError
    ELSE [type |-> IF FindNode(ns, edge.source).type = "ToolNode"
                   THEN "tool-connection" ELSE "direct",
          connection_id |-> edge.id,
          source_node_id |-> edge.source,
          destination_node_id |-> edge.target]

\* a payload named after its workflow id
generateWorkflowPayload_NamedById(ns, es, id) ==
    [workflow_id |-> id,
     name |-> id,
     nodes |-> [i \in 1..Len(ns) |-> workflowNode(ns[i])],
     connections |-> [i \in 1..Len(es) |-> workflowConnection(ns, es[i])]]

\* id is what uuidv4() returns; a throw in edges.map ends the call
generateWorkflowPayload(ns, es, id) ==
    IF \E i \in 1..Len(es) : workflowConnection(ns, es[i]) = TypeError
    THEN TypeError
    ELSE [workflow_id |-> id,
          name |-> "My Awesome Workflow",
          nodes |-> [i \in 1..Len(ns) |-> workflowNode(ns[i])],
          connections |-> [i \in 1..Len(es) |-> workflowConnection(ns, es[i])]]

\* callInvokeAPI begins by building the payload; the chat panel that calls
\* it is rendered in run mode only
GenerateWorkflowPayload ==
    /\ isInteractMode
    \* one id more than the graph may take: for the workflow_id
    /\ nextId <= EndId + MaxIds + 1
    /\ lastCall' = [op |-> "generateWorkflowPayload",
                    result |-> generateWorkflowPayload(nodes, edges, nextId)]
    /\ nextId' = nextId + 1
    /\ UNCHANGED <<nodes, edges, selectedNodeId, isInteractMode, chatMessages,
                   edgesAdded, updates, wire, pc, session>>

\* A graph is built, with its forms, and then run: in run mode the palette
\* is hidden and the canvas is locked, so that the graph is edited in edit
\* mode only.
NextSerialize ==
    \/ ~isInteractMode /\ \E t \in PaletteTypes : AddNode(t)
    \/ ~isInteractMode /\ \E c \in Connections : OnConnect(c)
    \/ ~isInteractMode /\ \E id \in Configurable(nodes), p \in ParamInputs :
            UpdateNodeParams(id, p)
    \/ EnterRunMode
    \/ GenerateWorkflowPayload

SpecSerialize == Init /\ [][NextSerialize]_vars

-----------------------------------------------------------------------------
(* Run sessions: the Run button mounts and unmounts the chat panel, and each
   panel keeps its own isLoading. A callInvokeAPI is named by the panel that
   started it; it goes on, and writes to the store, after its panel is gone. *)

\* a handleRunClick whose setInteractMode(true) leaves the selection alone
RunWorkflow_KeepsSelection ==
    /\ ~isInteractMode
    /\ session.mounts < MaxMounts
    /\ chatMessages' = <<>>
    /\ isInteractMode' = TRUE
    /\ session' = [session EXCEPT !.mounts = @ + 1,
                                  !.panel = session.mounts + 1,
                                  !.isLoading = FALSE]
    /\ UNCHANGED <<nodes, edges, selectedNodeId,
                   nextId, edgesAdded, updates, lastCall, wire, pc>>

\* Toolbar handleRunClick in edit mode: clearChatMessages(), then
\* setInteractMode(true), which clears the selection; page.tsx then renders
\* a new InteractNode, whose isLoading starts false
RunWorkflow ==
    /\ ~isInteractMode
    /\ session.mounts < MaxMounts
    /\ chatMessages' = <<>>
    /\ selectedNodeId' = NullId
    /\ isInteractMode' = TRUE
    /\ session' = [session EXCEPT !.mounts = @ + 1,
                                  !.panel = session.mounts + 1,
                                  !.isLoading = FALSE]
    /\ UNCHANGED <<nodes, edges, nextId, edgesAdded, updates, lastCall, wire, pc>>

\* page.tsx onNodeClick: setSelectedNodeId(node.id), in edit mode only
OnNodeClick(nodeId) ==
    /\ ~isInteractMode
    /\ nodeId \in NodeIds(nodes)
    /\ selectedNodeId' = nodeId
    /\ UNCHANGED <<nodes, edges, isInteractMode, chatMessages,
                   nextId, edgesAdded, updates, lastCall, wire, pc, session>>

\* Toolbar handleRunClick in run mode: setInteractMode(false), then
\* clearChatMessages(); page.tsx no longer renders the InteractNode, and
\* its state is lost. The button is enabled whatever the panel is doing.
StopAndEdit ==
    /\ isInteractMode
    /\ isInteractMode' = FALSE
    /\ chatMessages' = <<>>
    /\ session' = [session EXCEPT !.panel = 0, !.isLoading = FALSE]
    /\ UNCHANGED <<nodes, edges, selectedNodeId,
                   nextId, edgesAdded, updates, lastCall, wire, pc>>

\* handleSendMessage of the mounted panel up to its await: it returns at
\* once if that panel isLoading; else it sets isLoading, adds the query
\* and calls callInvokeAPI
SendQuery ==
    /\ session.panel # 0
    /\ ~session.isLoading
    /\ Len(chatMessages) < MaxHistory
    /\ chatMessages' = addChatMessage(chatMessages, userMessage)
    /\ session' = [session EXCEPT !.isLoading = TRUE,
                                  !.calls = @ \cup {session.panel}]
    /\ UNCHANGED <<nodes, edges, selectedNodeId, isInteractMode,
                   nextId, edgesAdded, updates, lastCall, wire, pc>>

\* the read loop of a call that has not returned hands a message to the
\* store
ChunkArrives(call, parsedJson) ==
    /\ call \in session.calls
    /\ LET r == deliver(chatMessages, parsedJson)
       IN  Len(r) <= MaxHistory /\ Len(r[Len(r)].content) <= MaxContent
    /\ chatMessages' = deliver(chatMessages, parsedJson)
    /\ session' = [session EXCEPT
                    !.streamed = IF parsedJson.stream_type = "token"
                                 THEN @ \cup {call} ELSE @]
    /\ UNCHANGED <<nodes, edges, selectedNodeId, isInteractMode,
                   nextId, edgesAdded, updates, lastCall, wire, pc>>

\* a call fails: its catch adds the error message, callInvokeAPI returns,
\* and handleSendMessage goes on to setIsLoading(false), which has an
\* effect only if the panel of the call is still the mounted one
CallFails(call) ==
    /\ call \in session.calls
    /\ Len(chatMessages) < MaxHistory
    /\ chatMessages' = addChatMessage(chatMessages, errorMessage)
    /\ session' = [session EXCEPT
                    !.calls = @ \ {call},
                    !.streamed = @ \ {call},
                    !.isLoading = IF call = session.panel THEN FALSE ELSE @]
    /\ UNCHANGED <<nodes, edges, selectedNodeId, isInteractMode,
                   nextId, edgesAdded, updates, lastCall, wire, pc>>

\* the stream of a call ends: callInvokeAPI returns, and handleSendMessage
\* goes on to setIsLoading(false)
CallReturns(call) ==
    /\ call \in session.calls
    /\ session' = [session EXCEPT
                    !.calls = @ \ {call},
                    !.streamed = @ \ {call},
                    !.isLoading = IF call = session.panel THEN FALSE ELSE @]
    /\ UNCHANGED <<nodes, edges, selectedNodeId, isInteractMode, chatMessages,
                   nextId, edgesAdded, updates, lastCall, wire, pc>>

\* The user toggles between edit and run, and chats; exchanges proceed.
NextSession ==
    \/ \E nodeId \in NodeIds(nodes) : OnNodeClick(nodeId)
    \/ RunWorkflow
    \/ StopAndEdit
    \/ SendQuery
    \/ \E call \in 1..MaxMounts, parsedJson \in WireMessages :
            ChunkArrives(call, parsedJson)
    \/ \E call \in 1..MaxMounts : CallFails(call)
    \/ \E call \in 1..MaxMounts : CallReturns(call)

SpecSession == Init /\ [][NextSession]_vars

-----------------------------------------------------------------------------
(* Claims about the graph *)

Type(id) == FindNode(nodes, id).type

\* the indices of the edges that enter node id on handle h
Incoming(id, h) ==
    {i \in 1..Len(edges) : edges[i].target = id /\ edges[i].targetHandle = h}

C2_NoEdgeIntoToolOrStartOrOutOfEnd ==
    \A i \in 1..Len(edges) :
        /\ Type(edges[i].target) # "ToolNode"
        /\ Type(edges[i].source) # "END"
        /\ Type(edges[i].target) # "START"

\* an edge out of START, an edge into END and an edge out of a Tool node
C2_Witness ==
    /\ \E i \in 1..Len(edges) : Type(edges[i].source) = "START"
    /\ \E i \in 1..Len(edges) : Type(edges[i].target) = "END"
    /\ \E i \in 1..Len(edges) : Type(edges[i].source) = "ToolNode"

\* C3: an edge has a Tool node as its source exactly when its target is an
\* LLM node and its target handle is the tool handle.
C3_ToolSourceIffToolHandle ==
    \A i \in 1..Len(edges) :
        (Type(edges[i].source) = "ToolNode")
            <=> (Type(edges[i].target) = "LLMNode" /\ edges[i].targetHandle = ToolHandle)

\* an LLM node entered by a Tool node on its tool handle and by another node
\* on its direct handle
C3_Witness ==
    \E i, j \in 1..Len(edges) :
        /\ edges[i].target = edges[j].target
        /\ Type(edges[i].source) = "ToolNode"
        /\ edges[i].targetHandle = ToolHandle
        /\ Type(edges[j].source) # "ToolNode"
        /\ edges[j].targetHandle = DirectHandle

\* C4: the source and the target of every edge are ids of nodes of the store.
C4_NoDanglingEdge ==
    \A i \in 1..Len(edges) :
        /\ edges[i].source \in NodeIds(nodes)
        /\ edges[i].target \in NodeIds(nodes)

\* a deletion has taken a node and, with it, an edge out of the store, and
\* an edge between nodes of the store is left
C4_Witness ==
    /\ edgesAdded > Len(edges)
    /\ Len(edges) >= 1

-----------------------------------------------------------------------------
(* Claims about the validator and the deletion *)

\* The rule list of the design, in its order; rule k fails where RuleFails[k].
Occupied(es, target, h) ==
    \E e \in {es[i] : i \in 1..Len(es)} : e.target = target /\ e.targetHandle = h

RuleFails(ns, es, c) ==
    LET exist == c.source \in NodeIds(ns) /\ c.target \in NodeIds(ns)
        src == IF exist THEN FindNode(ns, c.source).type ELSE "missing"
        tgt == IF exist THEN FindNode(ns, c.target).type ELSE "missing"
    IN  << c.source = c.target,
           ~exist,
           tgt = "START" \/ src = "END",
           tgt = "ToolNode",
           src = "ToolNode" /\ ~(tgt = "LLMNode" /\ c.targetHandle = ToolHandle),
           src # "ToolNode" /\ c.targetHandle = ToolHandle,
           c.targetHandle = ToolHandle /\ Occupied(es, c.target, ToolHandle),
           tgt = "LLMNode" /\ c.targetHandle = DirectHandle
                /\ Occupied(es, c.target, DirectHandle) >>

\* the first rule that fails, or 0 when none does
FirstFailure(ns, es, c) ==
    LET f == RuleFails(ns, es, c)
        failing == {k \in 1..Len(f) : f[k]}
    IN  IF failing = {} THEN 0 ELSE CHOOSE k \in failing : \A j \in failing : k <= j

\* C5: on every graph and for every candidate connection the validator
\* answers as the ordered rule list does: it accepts exactly when no rule fails.
C5_ValidatorIsTheRuleList ==
    \A c \in Connections :
        isValidConnection(nodes, edges, c) <=> (FirstFailure(nodes, edges, c) = 0)

\* on this graph, which has edges, some candidate is refused by the tool-slot
\* rule first, some by the direct-slot rule first, some is refused for a
\* missing endpoint and some is accepted
C5_Witness ==
    /\ Len(edges) >= 2
    /\ \E c \in Connections : FirstFailure(nodes, edges, c) = 7
    /\ \E c \in Connections : FirstFailure(nodes, edges, c) = 8
    /\ \E c \in Connections : FirstFailure(nodes, edges, c) = 2
    /\ \E c \in Connections : FirstFailure(nodes, edges, c) = 0

\* C6: a call of the validator changes nothing of the store (nodes, edges,
\* selection, mode, chat history), and the answer it gives is the validator's
\* answer on the graph as it is after the call, so that asking again gives
\* the same answer.
C6_ValidatorIsPure ==
    [][ (lastCall' # lastCall /\ lastCall'.op = "isValidConnection")
            => /\ UNCHANGED storeVars
               /\ \E c \in CanvasConnections(nodes') :
                    lastCall'.result = isValidConnection(nodes', edges', c) ]_vars

\* the validator has accepted a connection on a graph that has an edge and an
\* added node
C6_Witness ==
    /\ lastCall.op = "isValidConnection"
    /\ lastCall.result
    /\ Len(edges) >= 1
    /\ Len(nodes) >= 3

\* what the claim says is left of a sequence of nodes, and of edges, when the
\* nodes named by S are deleted
NodesLeft(ns, S) == SelectSeq(ns, LAMBDA n : n.id \notin S)

EdgesLeft(es, S) == SelectSeq(es, LAMBDA e : e.source \notin S /\ e.target \notin S)

\* C7: deleteElements(N, []) takes out exactly the nodes whose id is in N and
\* exactly the edges with an end in N; what is left is left as it was, in
\* the same order.
C7_DeleteRemovesExactlyTheNodesAndTheirEdges ==
    \A S \in DeleteSets(nodes) :
        /\ deleteNodes(nodes, S) = NodesLeft(nodes, S)
        /\ deleteEdges(edges, S, {}) = EdgesLeft(edges, S)

\* a deletion has taken a node and, with it, an edge out of the store and has
\* left an added node and an edge; a further deletion would again take out
\* some edges and leave others
C7_Witness ==
    /\ edgesAdded > Len(edges)
    /\ Len(nodes) >= 3
    /\ Len(edges) >= 1

\* C8: deleting a node that is not in the store changes neither the nodes nor
\* the edges, and deleting the same nodes a second time changes nothing more.
C8_DeleteAbsentIsNoOp ==
    /\ \A n \in IdUniverse \ NodeIds(nodes) :
        /\ deleteNodes(nodes, {n}) = nodes
        /\ deleteEdges(edges, {n}, {}) = edges
    /\ \A S \in DeleteSets(nodes) :
        /\ deleteNodes(deleteNodes(nodes, S), S) = deleteNodes(nodes, S)
        /\ deleteEdges(deleteEdges(edges, S, {}), S, {}) = deleteEdges(edges, S, {})

\* two nodes have been deleted, one of them with an edge, so that their ids
\* are absent, and the store still has an edge
C8_Witness ==
    /\ edgesAdded > Len(edges)
    /\ nextId - (EndId + 1) - edgesAdded >= Len(nodes) - 2 + 2
    /\ Len(edges) >= 1

-----------------------------------------------------------------------------
(* Claims about the stream and the chat history *)

\* one chat message for each record, in the order of the records
RECURSIVE deliverAll(_, _)
deliverAll(cm, ms) ==
    IF ms = <<>> THEN cm ELSE deliverAll(deliver(cm, Head(ms)), Tail(ms))

\* C9: for a body of well-formed event records the chat messages the read
\* loop produces do not depend on how the body is cut into reads: when the
\* loop has ended, the history is the history at its start with every record
\* of the body delivered exactly once.
C9_IngestionIndependentOfReads ==
    (pc = "done" /\ wire.status = "ok" /\ \A i \in 1..Len(wire.items) : wire.items[i].ok)
        => chatMessages = deliverAll(wire.base, wire.records)

SameStream(m, chunk) ==
    /\ m.node = chunk.node
    /\ m.type = chunk.type
    /\ m.stream_type = chunk.stream_type

\* C10: streamMessage(chunk) on a history whose last message has the node,
\* the type and the stream type of the chunk adds the chunk's content to the
\* end of that message's content and leaves the length of the history and
\* everything else as it was; otherwise, and on an empty history, it appends
\* the chunk as a new last message.
C10_StreamMessageCoalesces ==
    [][ \A chunk \in ChatInputs :
            StreamMessage(chunk) =>
                IF chatMessages # <<>> /\ SameStream(chatMessages[Len(chatMessages)], chunk)
                THEN /\ Len(chatMessages') = Len(chatMessages)
                     /\ chatMessages' =
                            [chatMessages EXCEPT
                                ![Len(chatMessages)].content = @ \o chunk.content]
                ELSE chatMessages' = Append(chatMessages, chunk) ]_vars

\* two fragments of node A have become one message, and a fragment of node B
\* a second message after it
C10_Witness ==
    chatMessages = << Message("A", "ai", "token", <<"x", "y">>),
                      Message("B", "ai", "token", <<"x">>) >>

\* C11: a parsed record whose stream type is not "token" is appended as a new
\* last message, and a message whose stream type is not "token" is never
\* changed by anything that is ingested after it.
C11_DiscreteMessagesAreAppendedNeverMerged ==
    [][ /\ \A m \in WireMessages :
            m.stream_type # "token" =>
                processLine(chatMessages, DataPrefix \o JSONstringify(m))
                    = Append(chatMessages, m)
        /\ \A i \in 1..Len(chatMessages) :
            chatMessages[i].stream_type # "token" =>
                Len(chatMessages') >= i /\ chatMessages'[i] = chatMessages[i] ]_vars

\* a discrete message of node A is followed, unmerged, by a token fragment
\* of the same node and type, and the read loop has ended
C11_Witness ==
    /\ pc = "done"
    /\ \E i \in 1..(Len(chatMessages) - 1) :
        /\ chatMessages[i] = Message("A", "ai", "undefined", <<"x">>)
        /\ chatMessages[i + 1].node = "A"
        /\ chatMessages[i + 1].type = "ai"
        /\ chatMessages[i + 1].stream_type = "token"

\* C12: when an exchange fails (the fetch rejects, the status is not OK, the
\* body is missing, or a read fails after some records were ingested), one
\* message of type "error" is appended and callInvokeAPI returns; after that
\* the exchange appends nothing more.
C12_FailureGivesOneErrorMessage ==
    [][ /\ (wire.status # "failed" /\ wire'.status = "failed") =>
            /\ Len(chatMessages') = Len(chatMessages) + 1
            /\ SubSeq(chatMessages', 1, Len(chatMessages)) = chatMessages
            /\ chatMessages'[Len(chatMessages')].type = "error"
            /\ pc' = "done"
        /\ (wire.status = "failed" /\ wire'.status = "failed") =>
            /\ chatMessages' = chatMessages
            /\ pc' \in {"done", "idle"} ]_vars

\* a read has failed after a record was ingested: the history ends with the
\* record's message and one error message, and the exchange is over
C12_Witness ==
    /\ wire.status = "failed"
    /\ wire.pos > 0
    /\ pc = "idle"
    /\ Len(chatMessages) = 3
    /\ chatMessages[2].type = "ai"
    /\ chatMessages[3].type = "error"

\* C13: on a response with status 422 one message of type "error" is appended
\* and every earlier message stays as it was; nothing of the response body
\* is in the message, no read is made of it, and nothing more is appended.
C13_ConfigRejectionGivesOneErrorMessage ==
    [][ /\ (wire.status # "422" /\ wire'.status = "422") =>
            /\ Len(chatMessages') = Len(chatMessages) + 1
            /\ SubSeq(chatMessages', 1, Len(chatMessages)) = chatMessages
            /\ chatMessages'[Len(chatMessages')].type = "error"
            /\ chatMessages'[Len(chatMessages')].content # wire'.body
            /\ chatMessages'[Len(chatMessages')].content
                    # JSONparse(wire'.body).value.content
            /\ wire'.pos = 0
            /\ pc' = "done"
        /\ (wire.status = "422" /\ wire'.status = "422") =>
            /\ chatMessages' = chatMessages
            /\ wire'.pos = 0
            /\ pc' \in {"done", "idle"} ]_vars

\* a 422 with a JSON body has been answered: the history is the user's
\* message and one error message, and the exchange is over
C13_Witness ==
    /\ wire.status = "422"
    /\ wire.body = JSONstringify(Message("A", "ai", "token", <<"x">>))
    /\ pc = "idle"
    /\ Len(chatMessages) = 2
    /\ chatMessages[1] = userMessage
    /\ chatMessages[2].type = "error"

\* the position in the body at which item i ends
EndOf(items, i) == Len(Body(SubSeq(items, 1, i)))

\* the items of the body that lie between the positions a and b
Between(items, a, b) ==
    LET I == {i \in 1..Len(items) : EndOf(items, i - 1) >= a /\ EndOf(items, i) <= b}
    IN  IF I = {} THEN <<>>
        ELSE SubSeq(items, CHOOSE i \in I : \A j \in I : i <= j,
                           CHOOSE i \in I : \A j \in I : i >= j)

\* C14: a record whose payload does not parse is dropped, no message is
\* appended for it and the loop goes on: a read of whole records leaves the
\* history as if only the well-formed records of the read had been delivered.
C14_MalformedRecordIsDropped ==
    [][ ( /\ pc = "reading"
          /\ wire'.pos > wire.pos
          /\ \E i \in 0..Len(wire.items) : EndOf(wire.items, i) = wire.pos
          /\ \E i \in 1..Len(wire.items) : EndOf(wire.items, i) = wire'.pos )
        => /\ chatMessages' = deliverAll(chatMessages,
                    WellFormed(Between(wire.items, wire.pos, wire'.pos)))
           /\ pc' = "reading" ]_vars

\* a body of a malformed record followed by a well-formed one has been read
\* to its end, and the message of the well-formed one is in the history
C14_Witness ==
    /\ pc = "done"
    /\ wire.status = "ok"
    /\ Len(wire.items) = 2
    /\ ~wire.items[1].ok
    /\ wire.items[2].ok
    /\ chatMessages = Append(wire.base, wire.items[2].message)

\* C15: no step of an exchange, from handleSendMessage to the return of
\* callInvokeAPI and whatever its outcome, changes the nodes, the edges or
\* the selection, and the messages that were in the history when the
\* exchange began stay where and as they were.
C15_ExchangeKeepsGraphAndPriorHistory ==
    [][ (pc # "idle" \/ pc' # "idle") =>
            /\ UNCHANGED <<nodes, edges, selectedNodeId>>
            /\ Len(chatMessages') >= Len(wire'.prior)
            /\ SubSeq(chatMessages', 1, Len(wire'.prior)) = wire'.prior ]_vars

\* a second exchange, begun on a history that was not empty, has read its
\* stream to the end and has added messages after the earlier ones
C15_Witness ==
    /\ pc = "done"
    /\ wire.status = "ok"
    /\ wire.prior # <<>>
    /\ Len(chatMessages) >= Len(wire.prior) + 2

-----------------------------------------------------------------------------
(* Claims about the serializer *)

\* C16: a call of the serializer changes neither the nodes nor the edges, and
\* two calls on the same graph give the same name, the same list of nodes
\* and the same list of connections; they may differ in the workflow id only.
C16_SerializerIsDeterministic ==
    [][ (lastCall'.op = "generateWorkflowPayload" /\ lastCall' # lastCall) =>
            /\ UNCHANGED <<nodes, edges>>
            /\ lastCall.op = "generateWorkflowPayload" =>
                /\ lastCall'.result.name = lastCall.result.name
                /\ lastCall'.result.nodes = lastCall.result.nodes
                /\ lastCall'.result.connections = lastCall.result.connections
                /\ lastCall'.result.workflow_id # lastCall.result.workflow_id ]_vars

\* the serializer has been called twice on a graph with an added node and an
\* edge
C16_Witness ==
    /\ lastCall.op = "generateWorkflowPayload"
    /\ Len(nodes) >= 3
    /\ Len(edges) >= 1
    /\ (nextId - (EndId + 1)) - (Len(nodes) - 2) - Len(edges) >= 2

\* the graph is frozen in run mode, so that the payload the caller saw last
\* is the payload of the graph as it is
Payload == lastCall.result

\* C17: the payload has one node for each node of the graph, in the order of
\* the graph; an LLM, Tool or A2A node has a param_dict, a START or END node
\* has type, node_id and name and nothing else.
C17_OneOutputNodePerNode ==
    lastCall.op = "generateWorkflowPayload" =>
        /\ Len(Payload.nodes) = Len(nodes)
        /\ \A i \in 1..Len(nodes) :
            /\ Payload.nodes[i].node_id = nodes[i].id
            /\ Payload.nodes[i].type = nodes[i].type
            /\ Payload.nodes[i].name = nodes[i].name
            /\ ("param_dict" \in DOMAIN Payload.nodes[i])
                    <=> (nodes[i].type \in {"LLMNode", "ToolNode", "A2ANode"})
            /\ nodes[i].type \in {"START", "END"}
                    => DOMAIN Payload.nodes[i] = {"type", "node_id", "name"}

\* the payload of a graph with an LLM node whose form was saved and a Tool node
C17_Witness ==
    /\ lastCall.op = "generateWorkflowPayload"
    /\ \E i \in 1..Len(nodes) :
        nodes[i].type = "LLMNode" /\ Param(nodes[i], "model") # "undefined"
    /\ \E i \in 1..Len(nodes) : nodes[i].type = "ToolNode"

\* C18: the payload has one connection for each edge of the graph, with the
\* id, the source and the target of the edge, of type "tool-connection" when
\* the source of the edge is a Tool node and only then, and "direct" otherwise.
C18_OneConnectionPerEdge ==
    lastCall.op = "generateWorkflowPayload" =>
        /\ Len(Payload.connections) = Len(edges)
        /\ \A i \in 1..Len(edges) :
            /\ Payload.connections[i].connection_id = edges[i].id
            /\ Payload.connections[i].source_node_id = edges[i].source
            /\ Payload.connections[i].destination_node_id = edges[i].target
            /\ Payload.connections[i].type =
                    IF Type(edges[i].source) = "ToolNode"
                    THEN "tool-connection" ELSE "direct"

\* the payload of a graph with an edge out of a Tool node into an LLM node
C18_Witness ==
    /\ lastCall.op = "generateWorkflowPayload"
    /\ \E i \in 1..Len(edges) :
        /\ Type(edges[i].source) = "ToolNode"
        /\ Type(edges[i].target) = "LLMNode"
        /\ Payload.connections[i].type = "tool-connection"

-----------------------------------------------------------------------------
(* Claims about the session *)

\* b is a with something, or nothing, added at its end
IsPrefix(a, b) == Len(a) <= Len(b) /\ SubSeq(b, 1, Len(a)) = a

\* C19: a step changes the chat history only by emptying it
\* (clearChatMessages), by appending one message, or by adding to the end of
\* the content of the last message; no other message is changed, removed or
\* moved, and the history gets shorter only by being emptied.
C19_HistoryOnlyGrowsAtItsEnd ==
    [][ \/ chatMessages' = <<>>
        \/ /\ Len(chatMessages') = Len(chatMessages) + 1
           /\ IsPrefix(chatMessages, chatMessages')
        \/ /\ Len(chatMessages') = Len(chatMessages)
           /\ Len(chatMessages) >= 1
           /\ \A i \in 1..(Len(chatMessages) - 1) : chatMessages'[i] = chatMessages[i]
           /\ LET old == chatMessages[Len(chatMessages)]
                  new == chatMessages'[Len(chatMessages)]
              IN  /\ IsPrefix(old.content, new.content)
                  /\ new = [old EXCEPT !.content = new.content] ]_vars

\* a history of two messages, the second of which was appended and then
\* extended
C19_Witness ==
    chatMessages = << Message("B", "ai", "token", <<"x">>),
                      Message("A", "ai", "token", <<"x", "y">>) >>

\* C20: at most one exchange is in flight: from the moment handleSendMessage
\* starts an exchange until its callInvokeAPI has returned, no second
\* callInvokeAPI is started, whatever the order of sends, run/edit toggles
\* and chunk arrivals.
C20_AtMostOneExchangeInFlight == Cardinality(session.calls) <= 1

\* C21: an exchange that has been started comes to its end: the read loop
\* ends on the end of the data or on a failure, whatever the records were,
\* callInvokeAPI returns and handleSendMessage sets isLoading back to false.
C21_ExchangeTerminates == (pc # "idle") ~> (pc = "idle")

\* an exchange over whose body, two token fragments and no record after
\* them, the loop has ended, and whose handleSendMessage has finished
C21_Witness ==
    /\ pc = "idle"
    /\ wire.status = "ok"
    /\ wire.pos = Len(wire.body)
    /\ Len(wire.records) = 2
    /\ \A i \in 1..2 : wire.records[i].stream_type = "token"

\* C22: the route hands the backend's status on to the client, so that a
\* backend answer of 422 with a JSON body ends in the message that the
\* configuration is invalid.
C22_ProxyPassesStatusThrough ==
    wire.response # NoAnswer =>
        /\ wire.response.status = wire.backend.status
        /\ ( /\ pc = "done"
             /\ wire.backend.status = 422
             /\ JSONparse(wire.backend.body).ok )
           => chatMessages[Len(chatMessages)] = configErrorMessage

-----------------------------------------------------------------------------
(* Further claims about the editor *)

\* after differs from before in the name and the params of node nodeId at
\* most
OnlyNameAndParamsOf(before, after, nodeId) ==
    /\ Len(after) = Len(before)
    /\ \A i \in 1..Len(before) :
        \/ after[i] = before[i]
        \/ /\ before[i].id = nodeId
           /\ after[i] = [before[i] EXCEPT !.name = after[i].name,
                                           !.params = after[i].params]

\* C23: updateNodeParams(id, p) changes the name and the params of node id
\* at most: the edges, the selection, the chat history, the ids, the types
\* and every other node stay as they are, and nothing changes at all when
\* id names no node of the graph. Looked at in every state in which a form
\* is saved, for the saved id and for every other id, present or not.
C23_UpdateNodeParamsKeepsTopology ==
    [][ updates' # updates =>
        /\ \E id \in NodeIds(nodes) : OnlyNameAndParamsOf(nodes, nodes', id)
        /\ UNCHANGED <<edges, selectedNodeId, isInteractMode, chatMessages>>
        /\ \A id \in IdUniverse, p \in ParamInputs :
            LET after == updateNodeParams(nodes, id, p)
            IN  /\ OnlyNameAndParamsOf(nodes, after, id)
                /\ id \notin NodeIds(nodes) => after = nodes ]_vars

\* a saved node next to another palette node and an edge
C23_Witness ==
    /\ updates = 1
    /\ Len(edges) >= 1
    /\ \E i, j \in 1..Len(nodes) :
        /\ nodes[i].name = "Agent"
        /\ nodes[j].type \in PaletteTypes
        /\ nodes[j].name # "Agent"

\* C24: the validator puts no bound on the edges into a default handle: a
\* connection into the default handle of an END or A2A node, from a source
\* of the graph that is neither an END node nor a Tool node nor the target
\* itself, is accepted however many edges enter that node already.
C24_DefaultHandleFanInIsUnbounded ==
    \A source \in NodeIds(nodes), target \in NodeIds(nodes) :
        ( /\ Type(target) \in {"END", "A2ANode"}
          /\ Type(source) \notin {"END", "ToolNode"}
          /\ source # target )
        => isValidConnection(nodes, edges,
                [source |-> source, target |-> target,
                 sourceHandle |-> NullHandle, targetHandle |-> NullHandle])

\* two edges enter the END node, and a further source that has no edge to
\* it is in the graph
C24_Witness ==
    /\ Cardinality(Incoming(EndId, NullHandle)) >= 2
    /\ \E i \in 1..Len(nodes) :
        /\ nodes[i].type = "A2ANode"
        /\ \A j \in 1..Len(edges) : edges[j].source # nodes[i].id

\* the edges of es that enter node id
Into(es, id) == SelectSeq(es, LAMBDA e : e.target = id)

\* C25: the validator does not look for cycles: its answer to a connection
\* the canvas can offer depends on the edges that enter the target only, so
\* a connection whose target leads back to its source is accepted like any
\* other, and graphs with a directed cycle are built through onConnect.
C25_ValidatorDoesNotDetectCycles ==
    \A c \in CanvasConnections(nodes) :
        isValidConnection(nodes, edges, c)
            = isValidConnection(nodes, Into(edges, c.target), c)

\* two A2A nodes with an edge in each direction
C25_Witness ==
    \E i, j \in 1..Len(edges) :
        /\ Type(edges[i].source) = "A2ANode"
        /\ Type(edges[i].target) = "A2ANode"
        /\ edges[j].source = edges[i].target
        /\ edges[j].target = edges[i].source
        /\ Reaches(edges, edges[i].source, edges[i].source)

-----------------------------------------------------------------------------
(* Further claims about the session *)

\* C26: a click on the run/edit toggle, in either direction, leaves the chat
\* history empty and flips isInteractMode, and leaves nodes and edges as
\* they are; after the click that starts a chat session no node is
\* selected. A click is a step that mounts or unmounts the chat panel.
C26_ToggleResetsTheSession ==
    [][ (session.panel = 0) # (session'.panel = 0) =>
        /\ chatMessages' = <<>>
        /\ isInteractMode' = ~isInteractMode
        /\ isInteractMode' = (session'.panel # 0)
        /\ isInteractMode' => selectedNodeId' = NullId
        /\ UNCHANGED <<nodes, edges>> ]_vars

\* back in edit mode after a chat session, with a node selected: the next
\* click on the toggle has a selection to clear
C26_Witness ==
    /\ ~isInteractMode
    /\ session.mounts = 1
    /\ selectedNodeId # NullId

\* C27: in edit mode the chat history is empty: no message of an exchange
\* that was started before the session was left comes into the history
\* after the reset.
C27_EditModeHistoryIsEmpty == ~isInteractMode => chatMessages = <<>>

-----------------------------------------------------------------------------
(* Further claims about the serializer *)

\* C28: in every graph built by addNode, accepted onConnect calls,
\* deleteElements and updateNodeParams, generateWorkflowPayload finds the
\* source node of every edge and returns a payload: it does not throw.
C28_SerializerDoesNotThrow ==
    generateWorkflowPayload(nodes, edges, nextId) # TypeError

\* a graph that lost a node and its edges, was saved to, and still has an
\* edge to serialize
C28_Witness ==
    /\ edgesAdded > Len(edges)
    /\ updates >= 1
    /\ Len(generateWorkflowPayload(nodes, edges, nextId).connections) >= 1

-----------------------------------------------------------------------------
(* Claims about the handles of LLM nodes *)

\* in graph (ns, es) every edge into an LLM node enters it on one of its two
\* named handles, and no LLM node has more than two incoming edges
LLMEdgesOnNamedHandles(ns, es) ==
    /\ \A i \in 1..Len(es) :
        FindNode(ns, es[i].target).type = "LLMNode"
            => es[i].targetHandle \in {DirectHandle, ToolHandle}
    /\ \A n \in 1..Len(ns) :
        ns[n].type = "LLMNode"
            => Cardinality({i \in 1..Len(es) : es[i].target = ns[n].id}) <= 2

C30_ToolConnectionIffToolHandle ==
    lastCall.op = "generateWorkflowPayload" =>
        /\ Len(Payload.connections) = Len(edges)
        /\ \A i \in 1..Len(edges) :
            /\ (Payload.connections[i].type = "tool-connection")
                    <=> (edges[i].targetHandle = ToolHandle)
            /\ Payload.connections[i].type = "tool-connection"
                    => Type(Payload.connections[i].destination_node_id) = "LLMNode"

\* the payload of an LLM node entered on both of its handles
C30_Witness ==
    /\ lastCall.op = "generateWorkflowPayload"
    /\ \E i, j \in 1..Len(edges) :
        /\ edges[i].target = edges[j].target
        /\ edges[i].targetHandle = ToolHandle
        /\ edges[j].targetHandle = DirectHandle
        /\ Payload.connections[i].type = "tool-connection"
        /\ Payload.connections[j].type = "direct"

-----------------------------------------------------------------------------
(* Claims about the order of the history *)

\* the messages of the items whose index is in I, in the order of the items
RECURSIVE Picked(_, _, _)
Picked(items, I, i) ==
    IF i > Len(items) THEN <<>>
    ELSE (IF i \in I THEN <<items[i].message>> ELSE <<>>) \o Picked(items, I, i + 1)

\* the well-formed items whose payload lies within the first pos characters
\* of the body
Received(items, pos) ==
    {i \in 1..Len(items) : items[i].ok /\ EndOf(items, i) - Len(Delimiter) <= pos}

\* C31: within an exchange the history keeps the order of the stream: the
\* user's message is in the history before any message of the response, and
\* in every state of the read loop the history is the history at the start
\* of the loop with some of the records received so far delivered whole,
\* one after the other in the order of the stream; no state shows a part of
\* a record, or a record ahead of an earlier one.
C31_HistoryKeepsStreamOrder ==
    (wire.status = "ok" /\ pc \in {"reading", "done"}) =>
        /\ wire.base = Append(wire.prior, userMessage)
        /\ \E I \in SUBSET Received(wire.items, wire.pos) :
            chatMessages = deliverAll(wire.base, Picked(wire.items, I, 1))

\* the loop is between two reads: of two records that make two messages the
\* first is in the history, after the user's message, and the second is not
\* yet
C31_Witness ==
    /\ pc = "reading"
    /\ wire.pos < Len(wire.body)
    /\ Len(wire.records) = 2
    /\ ~SameStream(wire.records[1], wire.records[2])
    /\ chatMessages = wire.prior \o <<userMessage, wire.records[1]>>

\* C32: the first token fragment of an exchange makes a new message: it is
\* appended to the history, and never added to a message that an earlier
\* exchange produced, whatever that message's node, type and stream type.
C32_FirstTokenStartsANewMessage ==
    [][ \A call \in 1..MaxMounts, parsedJson \in WireMessages :
            ( /\ parsedJson.stream_type = "token"
              /\ call \notin session.streamed
              /\ ChunkArrives(call, parsedJson) )
            => chatMessages' = Append(chatMessages, parsedJson) ]_vars

=============================================================================
